---- MODULE Spec2Model ----
(***************************************************************************)
(* Model of the Drive gallery (src/app.py): the cached query layer         *)
(* (st.cache_data over the four Drive reads), the retry loop of            *)
(* download_image_bytes, render_gallery, and the script that Streamlit     *)
(* re-runs top to bottom on every user interaction.                        *)
(*                                                                         *)
(* Text is a sequence of code points, so that ordering, lower-casing and   *)
(* substring search are computed rather than assumed.  Time is in seconds; *)
(* sleeps are in tenths of a second and are recorded in the call log.      *)
(***************************************************************************)
EXTENDS Integers, Sequences, FiniteSets, TLC

\* ---------------------------------------------------------------- bounds
MaxTime == 450      \* the clock stops advancing here
TickStep == 150     \* seconds that pass in one clock step
MaxGen == 1         \* number of times the Drive content changes
MaxFault == 3       \* longest queue of pending download failures

\* ------------------------------------------------------ program constants
TTL == 300              \* st.cache_data(ttl=300)
MaxAttempts == 3        \* for attempt in range(3)
SleepSSL == 8           \* time.sleep(0.8), in tenths of a second
SleepOther == 5         \* time.sleep(0.5), in tenths of a second
COLS_MIN == 2
COLS_MAX == 6
COLS_DEFAULT == 4
PAGE_SIZE_MIN == 10
PAGE_SIZE_MAX == 100
PAGE_SIZE_DEFAULT == 30

\* F applied to the value of e, with e evaluated once
Bind(e, F(_)) == CHOOSE x \in {F(v) : v \in {e}} : TRUE

\* ------------------------------------------------------------------ text
\* str.lower() on one code point (ASCII letters)
LowerChar(c) == IF c >= 65 /\ c <= 90 THEN c + 32 ELSE c

\* str.lower()
Lower(s) == [i \in 1..Len(s) |-> LowerChar(s[i])]

IsSpace(c) == c = 32

RECURSIVE LStrip(_)
LStrip(s) == IF s # <<>> /\ IsSpace(Head(s)) THEN LStrip(Tail(s)) ELSE s

RECURSIVE RStrip(_)
RStrip(s) ==
    IF s # <<>> /\ IsSpace(s[Len(s)]) THEN RStrip(SubSeq(s, 1, Len(s) - 1)) ELSE s

\* str.strip()
Strip(s) == RStrip(LStrip(s))

\* Python's `sub in s` on strings
Contains(s, sub) ==
    \E i \in 0..(Len(s) - Len(sub)) : SubSeq(s, i + 1, i + Len(sub)) = sub

\* Python's string order: s < t, by code point, a proper prefix first
RECURSIVE StrLess(_, _)
StrLess(s, t) ==
    IF t = <<>> THEN FALSE
    ELSE IF s = <<>> THEN TRUE
    ELSE IF Head(s) # Head(t) THEN Head(s) < Head(t)
    ELSE StrLess(Tail(s), Tail(t))

\* ------------------------------------------------------- the Drive (remote)
\* The folders and files the service account can see.  `g` is the generation
\* of the Drive content: a change on the Drive renames a folder, adds a
\* session, adds images and replaces file contents.
ROOT_FOLDER_IDS == <<"r1", "r2", "r3">>

RootIds == {ROOT_FOLDER_IDS[i] : i \in 1..Len(ROOT_FOLDER_IDS)}
SessionIds == {"a1", "a2", "a3", "b1"}
FolderIds == RootIds \cup SessionIds

\* files.get(fileId, fields="name"): the roots are "Al", "Bo" (renamed to "Al"
\* by a change on the Drive) and "Ce"; the sessions "1S", "3j", "0s" and "3j"
DriveName(fid, g) ==
    CASE fid = "r1" -> <<65, 108>>
      [] fid = "r2" -> IF g = 0 THEN <<66, 111>> ELSE <<65, 108>>
      [] fid = "r3" -> <<67, 101>>
      [] fid = "a1" -> <<49, 83>>
      [] fid = "a2" -> <<51, 106>>
      [] fid = "a3" -> <<48, 115>>
      [] OTHER      -> <<51, 106>>

Folder(fid, g) == [id |-> fid, name |-> DriveName(fid, g)]

\* files.list(... mimeType = folder, orderBy = "name")
DriveFolders(pid, g) ==
    CASE pid = "r1" -> <<Folder("a3", g), Folder("a1", g), Folder("a2", g)>>
      [] pid = "r2" -> <<Folder("b1", g)>>
      [] OTHER      -> <<>>

MaxImages == 25

NumImages(pid, g) ==
    CASE pid = "a1" -> MaxImages
      [] pid = "a2" -> IF g = 0 THEN 21 ELSE 12
      [] pid = "b1" -> 3
      [] OTHER      -> 0

ImageIds == {<<sid, k>> : sid \in SessionIds, k \in 1..MaxImages}

Image(sid, k) == [id |-> <<sid, k>>, name |-> <<sid, k>>, mimeType |-> "image/jpeg"]

\* files.list(... mimeType contains 'image/', orderBy = "name")
DriveImages(pid, g) == [k \in 1..NumImages(pid, g) |-> Image(pid, k)]

\* get_media: the content of a file as of generation g
DriveBytes(file_id, g) == <<file_id, g>>

\* files whose bytes Image.open cannot decode
Undecodable == {<<"a1", 2>>}

\* files whose download may fail, and the folder whose lookup may fail
FlakyIds == {<<"a2", 1>>}
ErrKinds == {"SSLError", "HttpError"}

RECURSIVE SeqsUpTo(_, _)
SeqsUpTo(S, n) ==
    IF n = 0 THEN {<<>>}
    ELSE LET R == SeqsUpTo(S, n - 1)
         IN  R \cup {Append(q, e) : q \in R, e \in S}

FaultQueues == SeqsUpTo(ErrKinds, MaxFault)

VARIABLES
    cache,        \* st.cache_data: per function, per argument, <<>> or <<entry>>
    now,          \* the clock, in seconds
    gen,          \* generation of the Drive content
    unreachable,  \* folder ids whose metadata and listing calls fail
    fault,        \* per flaky file: the errors its next download attempts raise
    last,         \* the most recent direct call of a cached function
    cleared,      \* st.cache_data.clear() ran since that call
    under_test,   \* the cached function that is called directly
    widgets,      \* Streamlit's widget state: per widget, <<>> or <<[id, value]>>
    view          \* what the last run of the script put on the page

vars == <<cache, now, gen, unreachable, fault, last, cleared, under_test, widgets, view>>

\* ------------------------------------------------------ cached query layer
Ops == {"get_folder_name", "list_folders", "list_images", "download_image_bytes"}

ArgsOf(op) == IF op = "download_image_bytes" THEN ImageIds ELSE FolderIds

\* HasTTL with ttl=300 on download_image_bytes as well
HasTTLAll(op) == TRUE

\* the ttl argument of each decorator; download_image_bytes has none
HasTTL(op) == op # "download_image_bytes"

EmptyCache == [op \in Ops |-> [a \in ArgsOf(op) |-> <<>>]]

\* Live with no expiry
LiveForever(c, op, arg, t) == c[op][arg] # <<>>

\* an entry that is present and has not outlived its ttl
Live(c, op, arg, t) ==
    /\ c[op][arg] # <<>>
    /\ HasTTL(op) => t < c[op][arg][1].stored + TTL

\* cache_data_clear that leaves the downloaded bytes
cache_data_clear_lists ==
    [EmptyCache EXCEPT !["download_image_bytes"] = cache["download_image_bytes"]]

\* st.cache_data.clear()
cache_data_clear == EmptyCache

\* cache_data that stores nothing
cache_data_nostore(op, arg, c, t, f, body) ==
    Bind(body, LAMBDA b :
         [ok |-> b.ok, value |-> b.value, error |-> b.error, net |-> b.net,
          log |-> b.log, cache |-> c, fault |-> b.fault])

\* cache_data that stores the outcome of a call that raised as well
cache_data_store_failure(op, arg, c, t, f, body) ==
    IF Live(c, op, arg, t)
    THEN [ok |-> TRUE, value |-> c[op][arg][1].value, error |-> "",
          net |-> 0, log |-> <<>>, cache |-> c, fault |-> f]
    ELSE Bind(body, LAMBDA b :
           [ok |-> b.ok, value |-> b.value, error |-> b.error,
            net |-> b.net, log |-> b.log,
            cache |-> [c EXCEPT ![op][arg] = <<[value |-> b.value, stored |-> t]>>],
            fault |-> b.fault])

\* The wrapper st.cache_data puts around a function: a live entry is returned
\* without running the body; otherwise the body runs, a result is stored and
\* an exception is passed on with nothing stored (an expired entry is gone).
cache_data(op, arg, c, t, f, body) ==
    IF Live(c, op, arg, t)
    THEN [ok |-> TRUE, value |-> c[op][arg][1].value, error |-> "",
          net |-> 0, log |-> <<>>, cache |-> c, fault |-> f]
    ELSE Bind(body, LAMBDA b :
           [ok |-> b.ok, value |-> b.value, error |-> b.error,
            net |-> b.net, log |-> b.log,
            cache |-> [c EXCEPT ![op][arg] =
                          IF b.ok THEN <<[value |-> b.value, stored |-> t]>>
                          ELSE <<>>],
            fault |-> b.fault])

\* one metadata or list request: drive.files().get / .list (...).execute()
Execute(arg, value, down, f) ==
    IF arg \in down
    THEN [ok |-> FALSE, value |-> <<>>, error |-> "NotFound", net |-> 1,
          log |-> <<>>, fault |-> f]
    ELSE [ok |-> TRUE, value |-> value, error |-> "", net |-> 1,
          log |-> <<>>, fault |-> f]

get_folder_name(folder_id, c, t, g, down, f) ==
    cache_data("get_folder_name", folder_id, c, t, f,
               Execute(folder_id, DriveName(folder_id, g), down, f))

list_folders(parent_id, c, t, g, down, f) ==
    cache_data("list_folders", parent_id, c, t, f,
               Execute(parent_id, DriveFolders(parent_id, g), down, f))

list_images(parent_id, c, t, g, down, f) ==
    cache_data("list_images", parent_id, c, t, f,
               Execute(parent_id, DriveImages(parent_id, g), down, f))

\* ------------------------------------------------------------ retry loop
\* the errors queued for a file; only flaky files have any
Pending(f, file_id) == IF file_id \in DOMAIN f THEN f[file_id] ELSE <<>>

SetPending(f, file_id, q) ==
    IF file_id \in DOMAIN f THEN [f EXCEPT ![file_id] = q] ELSE f

\* time.sleep in the two except clauses
SleepFor(e) == IF e = "SSLError" THEN SleepSSL ELSE SleepOther

\* download_loop that keeps the first error instead of the last
RECURSIVE download_loop_first(_, _, _, _, _, _)
download_loop_first(file_id, attempt, q, last_error, log, g) ==
    IF attempt >= MaxAttempts
    THEN [ok |-> FALSE, value |-> <<>>, error |-> last_error,
          net |-> attempt, log |-> log, pending |-> q]
    ELSE IF q = <<>>
    THEN [ok |-> TRUE, value |-> DriveBytes(file_id, g), error |-> "",
          net |-> attempt + 1, log |-> Append(log, <<"attempt", attempt>>),
          pending |-> q]
    ELSE download_loop_first(file_id, attempt + 1, Tail(q),
                             IF last_error = "" THEN Head(q) ELSE last_error,
                             log \o << <<"attempt", attempt>>,
                                       <<"sleep", SleepFor(Head(q))>> >>, g)

\* the for loop of download_image_bytes from iteration `attempt` on;
\* `q` holds the errors the coming attempts raise (none: the attempt succeeds)
RECURSIVE download_loop(_, _, _, _, _, _)
download_loop(file_id, attempt, q, last_error, log, g) ==
    IF attempt >= MaxAttempts
    THEN [ok |-> FALSE, value |-> <<>>, error |-> last_error,
          net |-> attempt, log |-> log, pending |-> q]
    ELSE IF q = <<>>
    THEN [ok |-> TRUE, value |-> DriveBytes(file_id, g), error |-> "",
          net |-> attempt + 1, log |-> Append(log, <<"attempt", attempt>>),
          pending |-> q]
    ELSE download_loop(file_id, attempt + 1, Tail(q), Head(q),
                       log \o << <<"attempt", attempt>>,
                                 <<"sleep", SleepFor(Head(q))>> >>, g)

\* download_body that raises when any attempt failed
download_body_unforgiving(file_id, g, f) ==
    Bind(download_loop(file_id, 0, Pending(f, file_id), "", <<>>, g), LAMBDA r :
         [ok |-> r.ok /\ r.net = 1,
          value |-> IF r.net = 1 THEN r.value ELSE <<>>,
          error |-> IF r.net = 1 THEN r.error ELSE Pending(f, file_id)[1],
          net |-> r.net, log |-> r.log,
          fault |-> SetPending(f, file_id, r.pending)])

download_body(file_id, g, f) ==
    Bind(download_loop(file_id, 0, Pending(f, file_id), "", <<>>, g), LAMBDA r :
         [ok |-> r.ok, value |-> r.value, error |-> r.error, net |-> r.net,
          log |-> r.log, fault |-> SetPending(f, file_id, r.pending)])

download_image_bytes(file_id, c, t, g, f) ==
    cache_data("download_image_bytes", file_id, c, t, f,
               download_body(file_id, g, f))

\* ----------------------------------------------------------- render_gallery
\* Image.open(io.BytesIO(img_bytes)) raises on bytes that are no image
Decodes(img_bytes) == img_bytes[1] \notin Undecodable

\* RenderCell that starts filling at the second column
RenderCell_next_col(img, i, cols, r) ==
    [index |-> i, col |-> (i + 1) % cols,
     kind |-> IF r.ok /\ Decodes(r.value) THEN "image" ELSE "error",
     name |-> img.name,
     text |-> IF r.ok /\ Decodes(r.value) THEN ""
              ELSE IF r.ok THEN "UnidentifiedImageError" ELSE r.error]

\* the body of the for loop for images[i] (i counts from 0), in column i % cols
RenderCell(img, i, cols, r) ==
    IF r.ok /\ Decodes(r.value)
    THEN [index |-> i, col |-> i % cols, kind |-> "image", name |-> img.name,
          text |-> ""]
    ELSE [index |-> i, col |-> i % cols, kind |-> "error", name |-> img.name,
          text |-> IF r.ok THEN "UnidentifiedImageError" ELSE r.error]

\* render_from without the try/except: the first failure ends the loop
RECURSIVE render_from_abort(_, _, _, _, _, _)
render_from_abort(images, i, cols, acc, t, g) ==
    IF i >= Len(images) THEN acc
    ELSE LET img == images[i + 1]
         IN  Bind(download_image_bytes(img.id, acc.cache, t, g, acc.fault), LAMBDA r :
             Bind([cache |-> r.cache, fault |-> r.fault,
                   cells |-> Append(acc.cells, RenderCell(img, i, cols, r))], LAMBDA a :
                  IF r.ok /\ Decodes(r.value)
                  THEN render_from_abort(images, i + 1, cols, a, t, g)
                  ELSE a))

\* render_gallery from images[i] on; `acc` carries the cache, the pending
\* faults and the cells drawn so far
RECURSIVE render_from(_, _, _, _, _, _)
render_from(images, i, cols, acc, t, g) ==
    IF i >= Len(images) THEN acc
    ELSE LET img == images[i + 1]
         IN  Bind(download_image_bytes(img.id, acc.cache, t, g, acc.fault), LAMBDA r :
             Bind([cache |-> r.cache, fault |-> r.fault,
                   cells |-> Append(acc.cells, RenderCell(img, i, cols, r))], LAMBDA a :
                  render_from(images, i + 1, cols, a, t, g)))

render_gallery(images, cols, c, f, t, g) ==
    render_from(images, 0, cols, [cache |-> c, fault |-> f, cells |-> <<>>], t, g)

\* ------------------------------------------------------------- pagination
Min(a, b) == IF a < b THEN a ELSE b
Max(a, b) == IF a > b THEN a ELSE b

\* TotalPages rounding down
TotalPagesFloor(total, page_size) == Max(1, total \div page_size)

\* max(1, (total + page_size - 1) // page_size)
TotalPages(total, page_size) == Max(1, (total + page_size - 1) \div page_size)

\* start = (page - 1) * page_size
SliceStart(page, page_size) == (page - 1) * page_size

\* SliceEnd that stops one image early
SliceEnd_short(page, page_size, total) ==
    Min(SliceStart(page, page_size) + page_size - 1, total)

\* end = min(start + page_size, total)
SliceEnd(page, page_size, total) == Min(SliceStart(page, page_size) + page_size, total)

\* Python's images[start:end]
Slice(images, start, end) ==
    LET lo == Min(Max(start, 0), Len(images))
        hi == Min(Max(end, 0), Len(images))
    IN  IF hi <= lo THEN <<>> ELSE SubSeq(images, lo + 1, hi)

\* ------------------------------------------------------------ the widgets
WidgetNames == {"studio", "search", "session", "cols", "page_size", "page"}

NoWidgets == [w \in WidgetNames |-> <<>>]

\* What a widget returns.  Without key=, Streamlit identifies a widget by its
\* label and arguments (`id`: the options of a selectbox, the max_value of the
\* number_input): the value the user set is kept only while these are the same.
WidgetValue(old, w, id, default) ==
    IF old[w] # <<>> /\ old[w][1].id = id THEN old[w][1].value ELSE default

\* selectbox that starts on the last option
selectbox_last(old, w, options) == WidgetValue(old, w, options, options[Len(options)])

\* st.sidebar.selectbox(label, options): the first option until the user picks
selectbox(old, w, options) == WidgetValue(old, w, options, options[1])

\* st.sidebar.text_input(label, "")
text_input(old, w) == WidgetValue(old, w, 0, <<>>)

\* st.sidebar.slider(label, min, max, default)
slider(old, w, default) == WidgetValue(old, w, 0, default)

\* st.sidebar.number_input(label, min_value=1, max_value=max, value=1)
number_input(old, w, max_value) == WidgetValue(old, w, max_value, 1)

Shown(s, w, id, value) == [s.shown EXCEPT ![w] = <<[id |-> id, value |-> value]>>]

\* -------------------------------------------------------------- the script
\* sorted(names): ascending
RECURSIVE SortedNames(_)
SortedNames(S) ==
    IF S = {} THEN <<>>
    ELSE LET m == CHOOSE x \in S : \A y \in S \ {x} : StrLess(x, y)
         IN  <<m>> \o SortedNames(S \ {m})

\* x put into a list that is descending by name, after its equals (stable)
RECURSIVE InsertDesc(_, _)
InsertDesc(sorted, x) ==
    IF sorted = <<>> THEN <<x>>
    ELSE IF StrLess(Head(sorted).name, x.name) THEN <<x>> \o sorted
    ELSE <<Head(sorted)>> \o InsertDesc(Tail(sorted), x)

\* sorted(sessions, key=lambda x: x["name"], reverse=True)
RECURSIVE SortedDesc(_)
SortedDesc(sessions) ==
    IF sessions = <<>> THEN <<>>
    ELSE InsertDesc(SortedDesc(SubSeq(sessions, 1, Len(sessions) - 1)),
                    sessions[Len(sessions)])

\* Filtered that compares without lower-casing the name
RECURSIVE Filtered_exact_case(_, _)
Filtered_exact_case(sessions, search) ==
    IF sessions = <<>> THEN <<>>
    ELSE (IF Contains(Head(sessions).name, search)
          THEN <<Head(sessions)>> ELSE <<>>) \o Filtered_exact_case(Tail(sessions), search)

\* [s for s in sessions if search in s["name"].lower()]
RECURSIVE Filtered(_, _)
Filtered(sessions, search) ==
    IF sessions = <<>> THEN <<>>
    ELSE (IF Contains(Lower(Head(sessions).name), search)
          THEN <<Head(sessions)>> ELSE <<>>) \o Filtered(Tail(sessions), search)

\* next(s for s in sessions if s["name"] == selected_session_name)
RECURSIVE FirstNamed(_, _)
FirstNamed(sessions, name) ==
    IF Head(sessions).name = name THEN Head(sessions)
    ELSE FirstNamed(Tail(sessions), name)

\* the state of a run at its first line
Begin(old, c, f, event) ==
    [status |-> "running", event |-> event, warning |-> "", error |-> "",
     cache |-> c, fault |-> f, old |-> old, shown |-> NoWidgets,
     root_map |-> <<>>, root_names |-> <<>>,
     selected_root_name |-> <<>>, selected_root_id |-> "",
     sessions |-> <<>>, search |-> <<>>, session_names |-> <<>>,
     selected_session_name |-> <<>>, selected_session |-> [id |-> "", name |-> <<>>],
     images |-> <<>>, listed |-> FALSE, cols |-> 0, page_size |-> 0, total |-> 0,
     total_pages |-> 0, page |-> 0, start |-> 0, end |-> 0,
     images_page |-> <<>>, cells |-> <<>>]

Raise(s, r) == [s EXCEPT !.status = "error", !.error = r.error, !.cache = r.cache]

\* Stop that ends the run as an uncaught exception does
Stop_raise(s, w) == [s EXCEPT !.status = "error", !.warning = w, !.error = "StopException"]

\* st.warning(w) followed by st.stop()
Stop(s, w) == [s EXCEPT !.status = "stopped", !.warning = w]

\* {get_folder_name(fid): fid for fid in ROOT_FOLDER_IDS}, from the i-th id on:
\* a later id takes the place of an earlier one of the same name
RECURSIVE RootMapFrom(_, _)
RootMapFrom(i, s) ==
    IF i > Len(ROOT_FOLDER_IDS) THEN s
    ELSE LET fid == ROOT_FOLDER_IDS[i]
             m   == s.root_map
         IN  Bind(get_folder_name(fid, s.cache, now, gen, unreachable, s.fault), LAMBDA r :
             IF ~r.ok THEN Raise(s, r)
             ELSE Bind([s EXCEPT !.cache = r.cache,
                                 !.root_map = [n \in DOMAIN m \cup {r.value} |->
                                                 IF n = r.value THEN fid ELSE m[n]]],
                       LAMBDA s1 : RootMapFrom(i + 1, s1)))

\* lines 125-129
RootSelection(s0) ==
    Bind(RootMapFrom(1, s0), LAMBDA s :
        IF s.status # "running" THEN s
        ELSE Bind(SortedNames(DOMAIN s.root_map), LAMBDA root_names :
             LET name == selectbox(s.old, "studio", root_names)
             IN  [s EXCEPT !.root_names = root_names,
                           !.selected_root_name = name,
                           !.selected_root_id = s.root_map[name],
                           !.shown = Shown(s, "studio", root_names, name)]))

\* lines 132-148
SessionList(s) ==
    IF s.status # "running" THEN s
    ELSE Bind(list_folders(s.selected_root_id, s.cache, now, gen,
                           unreachable, s.fault), LAMBDA r :
         IF ~r.ok THEN Raise(s, r)
         ELSE IF r.value = <<>> THEN Stop([s EXCEPT !.cache = r.cache], "no_sessions")
         ELSE LET raw    == text_input(s.old, "search")
                  search == Lower(Strip(raw))
                  sorted == SortedDesc(r.value)
              IN  Bind(IF search # <<>> THEN Filtered(sorted, search) ELSE sorted,
                       LAMBDA sessions :
                  LET s1 == [s EXCEPT !.cache = r.cache, !.search = search,
                                      !.sessions = sessions,
                                      !.shown = Shown(s, "search", 0, raw)]
                  IN  IF sessions = <<>> THEN Stop(s1, "no_match") ELSE s1))

\* lines 150-162
SessionSelection(s) ==
    IF s.status # "running" THEN s
    ELSE LET session_names == [i \in 1..Len(s.sessions) |-> s.sessions[i].name]
             name == selectbox(s.old, "session", session_names)
             selected_session == FirstNamed(s.sessions, name)
         IN  Bind(list_images(selected_session.id, s.cache, now, gen,
                              unreachable, s.fault), LAMBDA r :
             Bind([s EXCEPT !.session_names = session_names,
                            !.selected_session_name = name,
                            !.selected_session = selected_session,
                            !.shown = Shown(s, "session", session_names, name),
                            !.listed = TRUE], LAMBDA s1 :
             IF ~r.ok THEN Raise(s1, r)
             ELSE IF r.value = <<>> THEN Stop([s1 EXCEPT !.cache = r.cache], "no_images")
             ELSE [s1 EXCEPT !.cache = r.cache, !.images = r.value]))

\* lines 165-176
Pagination(s) ==
    IF s.status # "running" THEN s
    ELSE LET cols        == slider(s.old, "cols", COLS_DEFAULT)
             page_size   == slider(s.old, "page_size", PAGE_SIZE_DEFAULT)
             total       == Len(s.images)
             total_pages == TotalPages(total, page_size)
             page        == number_input(s.old, "page", total_pages)
             start       == SliceStart(page, page_size)
             end         == SliceEnd(page, page_size, total)
             sh1 == Shown(s, "cols", 0, cols)
             sh2 == [sh1 EXCEPT !["page_size"] = <<[id |-> 0, value |-> page_size]>>]
             sh3 == [sh2 EXCEPT !["page"] = <<[id |-> total_pages, value |-> page]>>]
         IN  [s EXCEPT !.cols = cols, !.page_size = page_size, !.total = total,
                       !.total_pages = total_pages, !.page = page,
                       !.start = start, !.end = end,
                       !.images_page = Slice(s.images, start, end),
                       !.shown = sh3]

\* line 181
Render(s) ==
    IF s.status # "running" THEN s
    ELSE Bind(render_gallery(s.images_page, s.cols, s.cache, s.fault, now, gen),
              LAMBDA r : [s EXCEPT !.status = "done", !.cache = r.cache,
                                   !.fault = r.fault, !.cells = r.cells])

\* one run of the script from line 124 on, with the widget state `old`
Script(old, c, f, event) ==
    Bind(Begin(old, c, f, event), LAMBDA s0 :
    Bind(RootSelection(s0), LAMBDA s1 :
    Bind(SessionList(s1), LAMBDA s2 :
    Bind(SessionSelection(s2), LAMBDA s3 :
    Bind(Pagination(s3), LAMBDA s4 : Render(s4))))))

\* The widget state a run leaves.  Streamlit drops the state of the widgets the
\* run did not reach, unless the run ended in an uncaught exception.
WidgetsAfter(s) ==
    IF s.status = "error"
    THEN [w \in WidgetNames |-> IF s.shown[w] # <<>> THEN s.shown[w] ELSE s.old[w]]
    ELSE s.shown

\* what the user sees after a run
ViewOf(s) ==
    [status |-> s.status, event |-> s.event, warning |-> s.warning,
     error |-> s.error,
     rendered |-> {w \in WidgetNames : s.shown[w] # <<>>},
     root_map |-> s.root_map, root_names |-> s.root_names,
     sessions |-> s.sessions, search |-> s.search,
     selected_root_name |-> s.selected_root_name,
     selected_root_id |-> s.selected_root_id,
     session_names |-> s.session_names,
     selected_session_name |-> s.selected_session_name,
     selected_session_id |-> s.selected_session.id,
     listed |-> s.listed, images |-> s.images,
     cols |-> s.cols, page_size |-> s.page_size, total |-> s.total,
     total_pages |-> s.total_pages, page |-> s.page,
     start |-> s.start, end |-> s.end,
     images_page |-> s.images_page, cells |-> s.cells]

\* ------------------------------------------------------------ environment
\* time passes
Tick ==
    /\ now + TickStep <= MaxTime
    /\ now' = now + TickStep
    /\ UNCHANGED <<cache, gen, unreachable, fault, last, cleared, under_test, widgets, view>>

\* the content of the Drive changes
RemoteChange ==
    /\ gen < MaxGen
    /\ gen' = gen + 1
    /\ UNCHANGED <<cache, now, unreachable, fault, last, cleared, under_test, widgets, view>>

\* a folder becomes inaccessible to the service account, or accessible again
Access ==
    /\ \E d \in SUBSET {"r2"} : d # unreachable /\ unreachable' = d
    /\ UNCHANGED <<cache, now, gen, fault, last, cleared, under_test, widgets, view>>

\* the network starts failing the coming download attempts of a flaky file
Fault ==
    /\ \E fid \in FlakyIds, q \in FaultQueues \ {<<>>} :
          /\ fault[fid] = <<>>
          /\ fault' = [fault EXCEPT ![fid] = q]
    /\ UNCHANGED <<cache, now, gen, unreachable, last, cleared, under_test, widgets, view>>

\* ------------------------------------------------------ user interactions
\* the texts the user types into the search box: "", " S", "z"
SearchTexts == {<<>>, <<32, 83>>, <<122>>}

\* the positions the user drags the page-size slider to
PageSizeChoices == {PAGE_SIZE_MIN, 20, PAGE_SIZE_DEFAULT}

\* the positions the user drags the columns slider to
ColsChoices == {COLS_MIN, COLS_DEFAULT, COLS_MAX}

Range(seq) == {seq[i] : i \in 1..Len(seq)}

\* the widget state once the user has set widget w to v
SetWidget(w, v) == [widgets EXCEPT ![w] = <<[id |-> widgets[w][1].id, value |-> v]>>]

\* Streamlit runs the script again and shows what it produced
Rerun(old, c, event) ==
    /\ \E s \in {Script(old, c, fault, event)} :
          /\ cache' = s.cache
          /\ fault' = s.fault
          /\ widgets' = WidgetsAfter(s)
          /\ view' = ViewOf(s)
    /\ UNCHANGED <<now, gen, unreachable, last, cleared, under_test>>

Changes(w, v) == w \in view.rendered /\ widgets[w][1].value # v

SelectStudio ==
    \E v \in Range(view.root_names) :
        Changes("studio", v) /\ Rerun(SetWidget("studio", v), cache, "select_root")

SearchSessions ==
    \E v \in SearchTexts :
        Changes("search", v) /\ Rerun(SetWidget("search", v), cache, "search")

SelectSession ==
    \E v \in Range(view.session_names) :
        Changes("session", v) /\ Rerun(SetWidget("session", v), cache, "select_session")

SetColumns ==
    \E v \in ColsChoices :
        Changes("cols", v) /\ Rerun(SetWidget("cols", v), cache, "cols")

SetPageSize ==
    \E v \in PageSizeChoices :
        Changes("page_size", v) /\ Rerun(SetWidget("page_size", v), cache, "page_size")

SetPage ==
    \E v \in 1..view.total_pages :
        Changes("page", v) /\ Rerun(SetWidget("page", v), cache, "page")

\* lines 118-120: the button clears the cache and the script starts over.
\* Whether the widgets keep their values over st.rerun() depends on the
\* Streamlit release, so both outcomes are allowed.
Refresh ==
    \E keep \in BOOLEAN :
        Rerun(IF keep THEN widgets ELSE NoWidgets, cache_data_clear, "refresh")

NoCall == [op |-> "", arg |-> <<>>, t |-> 0, ok |-> FALSE, value |-> <<>>,
           error |-> "", net |-> 0, log |-> <<>>, found |-> "",
           after_failure |-> FALSE]

\* The page as first opened: the first run of the script, on an empty cache.
\* The Drive content, the folders the service account can reach and the state
\* of the network are whatever they are.
Init ==
    /\ now = 0
    /\ gen \in 0..MaxGen
    /\ unreachable \in SUBSET {"r2"}
    /\ last = NoCall
    /\ cleared = FALSE
    /\ under_test = ""
    /\ \E q \in [FlakyIds -> FaultQueues] :
       \E s \in {Script(NoWidgets, EmptyCache, q, "open")} :
          /\ cache = s.cache
          /\ fault = s.fault
          /\ widgets = WidgetsAfter(s)
          /\ view = ViewOf(s)

Next ==
    \/ SelectStudio
    \/ SearchSessions
    \/ SelectSession
    \/ SetColumns
    \/ SetPageSize
    \/ SetPage
    \/ Refresh

Spec == Init /\ [][Next]_vars

\* ------------------------------------------- the cached functions, called
\* the arguments the functions are called with in SpecCache
NameArgs == {"r1", "r2"}
FolderArgs == {"r2"}
ImageArgs == {"a2"}
ByteArgs == FlakyIds \cup {<<"a1", 2>>}

\* how the call found the cache: a live entry, an expired one or none
Found(op, arg) ==
    IF Live(cache, op, arg, now) THEN "live"
    ELSE IF cache[op][arg] # <<>> THEN "expired" ELSE "none"

\* the record kept of a call: what it found, what it did and what it returned
CallRecord(op, arg, r) ==
    [op |-> op, arg |-> arg, t |-> now, ok |-> r.ok, value |-> r.value,
     error |-> r.error, net |-> r.net, log |-> r.log, found |-> Found(op, arg),
     after_failure |-> last.op = op /\ last.arg = arg /\ ~last.ok]

Returned(op, arg, r) ==
    /\ cache' = r.cache
    /\ fault' = r.fault
    /\ last' = CallRecord(op, arg, r)
    /\ cleared' = FALSE
    /\ UNCHANGED <<now, gen, unreachable, under_test, widgets, view>>

CallGetFolderName ==
    \E a \in NameArgs :
        under_test = "get_folder_name" /\
        Returned("get_folder_name", a,
                 get_folder_name(a, cache, now, gen, unreachable, fault))

CallListFolders ==
    \E a \in FolderArgs :
        under_test = "list_folders" /\
        Returned("list_folders", a,
                 list_folders(a, cache, now, gen, unreachable, fault))

CallListImages ==
    \E a \in ImageArgs :
        under_test = "list_images" /\
        Returned("list_images", a,
                 list_images(a, cache, now, gen, unreachable, fault))

CallDownload ==
    \E a \in ByteArgs :
        under_test = "download_image_bytes" /\
        Returned("download_image_bytes", a,
                 download_image_bytes(a, cache, now, gen, fault))

\* st.cache_data.clear()
ClearAll ==
    /\ cache' = cache_data_clear
    /\ cleared' = TRUE
    /\ UNCHANGED <<now, gen, unreachable, fault, last, under_test, widgets, view>>

InitCache ==
    /\ cache = EmptyCache
    /\ now = 0
    /\ gen = 0
    /\ unreachable = {}
    /\ fault = [fid \in FlakyIds |-> <<>>]
    /\ last = NoCall
    /\ cleared = FALSE
    /\ under_test \in Ops
    /\ widgets = NoWidgets
    /\ view = ViewOf(Begin(NoWidgets, EmptyCache, fault, "none"))

NextCache ==
    \/ Tick
    \/ RemoteChange
    \/ Access
    \/ Fault
    \/ ClearAll
    \/ CallGetFolderName
    \/ CallListFolders
    \/ CallListImages
    \/ CallDownload

SpecCache == InitCache /\ [][NextCache]_vars

\* ------------------------------------------------------------------ claims
\* a direct call of the cached function op with argument a
Called(op, a) ==
    /\ CallGetFolderName \/ CallListFolders \/ CallListImages \/ CallDownload
    /\ last'.op = op
    /\ last'.arg = a

KeysOf(op) ==
    CASE op = "get_folder_name" -> NameArgs
      [] op = "list_folders" -> FolderArgs
      [] op = "list_images" -> ImageArgs
      [] OTHER -> ByteArgs

\* the number of download attempts a call log shows
Attempts(log) == Cardinality({i \in 1..Len(log) : log[i][1] = "attempt"})

\* what the Drive answers to op(a) in generation g
DriveValue(op, a, g) ==
    CASE op = "get_folder_name" -> DriveName(a, g)
      [] op = "list_folders" -> DriveFolders(a, g)
      [] op = "list_images" -> DriveImages(a, g)
      [] OTHER -> DriveBytes(a, g)

Expired(op, a) ==
    HasTTL(op) /\ cache[op][a] # <<>> /\ now >= cache[op][a][1].stored + TTL

\* C1: a call of download_image_bytes that runs the loop and whose first three
\* attempts all fail makes exactly 3 attempts and raises the error of the third;
\* and a call that raises has made exactly 3 attempts, all of them failed.
C1_RetryBound ==
    [][\A a \in ByteArgs :
         Called("download_image_bytes", a) =>
            /\ (cache["download_image_bytes"][a] = <<>> /\ Len(Pending(fault, a)) >= 3) =>
                  /\ ~last'.ok
                  /\ last'.net = 3
                  /\ Attempts(last'.log) = 3
                  /\ last'.error = Pending(fault, a)[3]
            /\ ~last'.ok =>
                  /\ last'.net = 3
                  /\ Attempts(last'.log) = 3
                  /\ Len(Pending(fault, a)) >= 3
                  /\ Pending(fault', a) = SubSeq(Pending(fault, a), 4, Len(Pending(fault, a)))]_vars

\* a download failed on an SSL error, then twice on HTTP errors, and raised
\* the HTTP error after three attempts
C1_Witness ==
    /\ last.op = "download_image_bytes"
    /\ ~last.ok
    /\ last.net = 3
    /\ last.error = "HttpError"
    /\ last.log[2] = <<"sleep", SleepSSL>>

\* C2 as stated: two calls of O(A) in a row, the first of which ran the
\* function, the second inside the time-to-live window of the first and with
\* no clear in between, make exactly one network call together.
C2_Original ==
    [][\A op \in Ops : \A a \in KeysOf(op) :
         ( /\ Called(op, a)
           /\ last.op = op /\ last.arg = a /\ last.found # "live"
           /\ ~cleared
           /\ HasTTL(op) => now < last.t + TTL )
         => last.net + last'.net = 1]_vars

\* C2 amended: when the first call ran the function and returned, the second
\* call makes no network call and returns the stored result, so that the two
\* make one network call together for the folder-name and list operations and
\* one to three download attempts for download_image_bytes; and any call that
\* finds a live entry returns it without a network call.
C2_CacheHit ==
    [][\A op \in Ops : \A a \in KeysOf(op) :
         Called(op, a) =>
            /\ ( /\ last.op = op /\ last.arg = a /\ last.found # "live"
                 /\ last.ok
                 /\ ~cleared
                 /\ HasTTL(op) => now < last.t + TTL )
               => /\ last'.ok
                  /\ last'.net = 0
                  /\ last'.value = last.value
                  /\ last.net >= 1
                  /\ last.net <= (IF HasTTL(op) THEN 1 ELSE 3)
            /\ Live(cache, op, a, now)
               => /\ last'.ok
                  /\ last'.net = 0
                  /\ last'.value = cache[op][a][1].value
                  /\ cache' = cache]_vars

\* a second call, later in the window, was answered from the cache
C2_Witness ==
    /\ last.op = "list_images"
    /\ last.found = "live"
    /\ last.ok
    /\ last.net = 0
    /\ last.t > 0
    /\ last.value = DriveImages("a2", 0)

\* C3: a call of a folder-name or list operation that finds an entry 300
\* seconds old or older makes one network call; when that call succeeds the
\* entry holds the new value from then on, and the next call within the new
\* window returns that value without a network call.
C3_CacheExpiry ==
    [][\A op \in Ops \ {"download_image_bytes"} : \A a \in KeysOf(op) :
         Called(op, a) =>
            /\ Expired(op, a) =>
                  /\ last'.net = 1
                  /\ last'.found = "expired"
                  /\ last'.ok =>
                        /\ last'.value = DriveValue(op, a, gen)
                        /\ cache'[op][a] = <<[value |-> DriveValue(op, a, gen),
                                              stored |-> now]>>
            /\ ( /\ last.op = op /\ last.arg = a /\ last.found = "expired"
                 /\ last.ok
                 /\ ~cleared
                 /\ now < last.t + TTL )
               => /\ last'.net = 0
                  /\ last'.value = last.value]_vars

\* the folder was renamed on the Drive; the call after expiry fetched the new
\* name in place of the cached one
C3_Witness ==
    /\ last.op = "get_folder_name"
    /\ last.arg = "r2"
    /\ last.found = "expired"
    /\ last.ok
    /\ last.net = 1
    /\ last.value = DriveName("r2", 1)
    /\ last.value # DriveName("r2", 0)
    /\ cache["get_folder_name"]["r2"] = <<[value |-> last.value, stored |-> last.t]>>

C5_BytesKept ==
    [][\A a \in ByteArgs :
         /\ (Called("download_image_bytes", a) /\ last'.ok /\ last'.net >= 1)
               => cache'["download_image_bytes"][a]
                     = <<[value |-> last'.value, stored |-> now]>>
         /\ (cache["download_image_bytes"][a] # <<>> /\ ~ClearAll)
               => cache'["download_image_bytes"][a] = cache["download_image_bytes"][a]
         /\ (Called("download_image_bytes", a) /\ cache["download_image_bytes"][a] # <<>>)
               => /\ last'.ok
                  /\ last'.net = 0
                  /\ last'.value = cache["download_image_bytes"][a][1].value]_vars

\* bytes downloaded at time 0 were returned from the cache 300 seconds or more
\* later, after the file had changed on the Drive
C5_Witness ==
    /\ last.op = "download_image_bytes"
    /\ last.found = "live"
    /\ last.net = 0
    /\ last.t >= TTL
    /\ gen = 1
    /\ last.value = DriveBytes(last.arg, 0)
    /\ cache["download_image_bytes"][last.arg][1].stored = 0

\* C6: whenever a page is rendered, page_size >= 1, total_pages is the least
\* number of pages of page_size that hold all the images, 1 <= page <=
\* total_pages, and the page shows images[start:end] with start = (page - 1) *
\* page_size, end = min(start + page_size, total) and 0 <= start < end <= total;
\* 95 images in pages of 30 make 4 pages, the second of which is [30, 60).
C6_Pagination ==
    /\ TotalPages(95, 30) = 4
    /\ SliceStart(2, 30) = 30
    /\ SliceEnd(2, 30, 95) = 60
    /\ view.status = "done" =>
          /\ view.page_size >= 1
          /\ view.total = Len(view.images)
          /\ (view.total_pages - 1) * view.page_size < view.total
          /\ view.total <= view.total_pages * view.page_size
          /\ 1 <= view.page
          /\ view.page <= view.total_pages
          /\ view.start = (view.page - 1) * view.page_size
          /\ view.end = IF view.start + view.page_size < view.total
                        THEN view.start + view.page_size ELSE view.total
          /\ 0 <= view.start
          /\ view.start < view.end
          /\ view.end <= view.total
          /\ view.images_page
                = [i \in 1..(view.end - view.start) |-> view.images[view.start + i]]

\* the last page of 21 images in pages of 10 holds the one image [20, 21)
C6_Witness ==
    /\ view.status = "done"
    /\ view.total = 21
    /\ view.page_size = 10
    /\ view.total_pages = 3
    /\ view.page = 3
    /\ view.start = 20
    /\ view.end = 21
    /\ Len(view.cells) = 1

\* C7 as stated: after a change of the page size or of the column count the
\* page is total_pages if it was beyond it, and what it was otherwise.
C7_Original ==
    [][(view'.event \in {"page_size", "cols"}
          /\ view.status = "done" /\ view'.status = "done")
        => view'.page = IF view.page > view'.total_pages
                        THEN view'.total_pages ELSE view.page]_vars

\* C8 as stated: after the selection of another root or session that leads to
\* a rendered page, the page is 1.
C8_Original ==
    [][(view'.event \in {"select_root", "select_session"} /\ view'.status = "done")
        => view'.page = 1]_vars

\* the descriptor at position i of the rendered page failed to load
FailedToLoad(i) ==
    \/ cache["download_image_bytes"][view.images_page[i].id] = <<>>
    \/ view.images_page[i].id \in Undecodable

ErrorCells == {i \in 1..Len(view.cells) : view.cells[i].kind = "error"}

\* C9: render_gallery draws one cell for every descriptor of the page, in
\* order: an error cell with the image's name and the error text for each
\* descriptor whose download failed on all three attempts or whose bytes do not
\* decode, an image cell for each other; with one failing descriptor among N
\* there are N - 1 image cells and 1 error cell; the text of a download error
\* is the error of the third attempt.
C9_FailureIsolation ==
    /\ [](view.status = "done" =>
            /\ Len(view.cells) = Len(view.images_page)
            /\ \A i \in 1..Len(view.cells) :
                  /\ view.cells[i].index = i - 1
                  /\ view.cells[i].name = view.images_page[i].name
                  /\ view.cells[i].kind \in {"image", "error"}
                  /\ view.cells[i].kind = "error" <=> FailedToLoad(i)
                  /\ view.cells[i].kind = "error" <=> view.cells[i].text # ""
            /\ Cardinality({i \in 1..Len(view.images_page) : FailedToLoad(i)}) = 1
                  => /\ Cardinality(ErrorCells) = 1
                     /\ Cardinality({i \in 1..Len(view.cells) :
                                       view.cells[i].kind = "image"})
                           = Len(view.images_page) - 1)
    /\ [][\A i \in 1..Len(view'.cells) :
            view'.cells[i].kind = "error" =>
               IF view'.images_page[i].id \in Undecodable
               THEN view'.cells[i].text = "UnidentifiedImageError"
               ELSE /\ Len(Pending(fault, view'.images_page[i].id)) >= 3
                    /\ view'.cells[i].text
                          = Pending(fault, view'.images_page[i].id)[3]]_vars

\* a page of 21 images whose first download failed three times: the first
\* cell shows the error, the 20 cells after it show their images
C9_Witness ==
    /\ view.status = "done"
    /\ Len(view.cells) = 21
    /\ view.cells[1].kind = "error"
    /\ view.cells[1].text = "HttpError"
    /\ view.cells[1].name = <<"a2", 1>>
    /\ \A i \in 2..21 : view.cells[i].kind = "image"

\* the name matches the text typed into the search box
Matches(name, raw) ==
    Lower(Strip(raw)) = <<>> \/ Contains(Lower(name), Lower(Strip(raw)))

\* C10: after a change of the search text, either no session of the root
\* matches, and the run ends in the "no sessions match" state with no session
\* selected and no image listing made, or the selected session is one of the
\* offered sessions, all of which match, and is the first of them when the
\* session selected before is not among them.
C10_SearchFallback ==
    [][view'.event = "search" =>
         LET raw == widgets'["search"][1].value
             all == cache'["list_folders"][view'.selected_root_id][1].value
         IN  IF \A i \in 1..Len(all) : ~Matches(all[i].name, raw)
             THEN /\ view'.status = "stopped"
                  /\ view'.warning = "no_match"
                  /\ view'.selected_session_id = ""
                  /\ view'.session_names = <<>>
                  /\ "session" \notin view'.rendered
                  /\ ~view'.listed
             ELSE /\ view'.warning # "no_match"
                  /\ view'.session_names # <<>>
                  /\ \A i \in 1..Len(view'.session_names) :
                        Matches(view'.session_names[i], raw)
                  /\ view'.selected_session_name \in Range(view'.session_names)
                  /\ view'.listed
                  /\ view.selected_session_name \notin Range(view'.session_names)
                        => view'.selected_session_name = view'.session_names[1]]_vars

\* the search for " S" removed the selected session "3j": the selection is
\* now "1S", the first of the two sessions left
C10_Witness ==
    /\ view.event = "search"
    /\ widgets["search"] # <<>>
    /\ widgets["search"][1].value = <<32, 83>>
    /\ view.session_names = << <<49, 83>>, <<48, 115>> >>
    /\ view.selected_session_name = <<49, 83>>
    /\ view.selected_session_id = "a1"

\* the names of a list of folders
Names(folders) == [i \in 1..Len(folders) |-> folders[i].name]

\* the sessions the last run listed for the selected root
ListedSessions == cache["list_folders"][view.selected_root_id][1].value

\* the run went as far as the search box and the list of offered sessions
Offered == "search" \in view.rendered

\* C11: the sessions offered for selection are exactly the sessions listed for
\* the selected root whose lower-cased name contains the stripped, lower-cased
\* search text (all of them when that text is empty), each once, in
\* descending name order, which is what sorting first and filtering second
\* gives; the names offered are their names; "2024-01-10", "2024-03-05",
\* "2023-12-01" sort to "2024-03-05", "2024-01-10", "2023-12-01" and "smith"
\* keeps "Smith Wedding" out of "Smith Wedding", "Jones Party".
C11_SessionOrder ==
    /\ LET d1 == <<50, 48, 50, 52, 45, 48, 49, 45, 49, 48>>
           d2 == <<50, 48, 50, 52, 45, 48, 51, 45, 48, 53>>
           d3 == <<50, 48, 50, 51, 45, 49, 50, 45, 48, 49>>
       IN  Names(SortedDesc(<<[id |-> "x", name |-> d1], [id |-> "y", name |-> d2],
                              [id |-> "z", name |-> d3]>>)) = <<d2, d1, d3>>
    /\ LET smith == <<83, 109, 105, 116, 104, 32, 87, 101, 100, 100, 105, 110, 103>>
           jones == <<74, 111, 110, 101, 115, 32, 80, 97, 114, 116, 121>>
       IN  Names(Filtered(<<[id |-> "x", name |-> smith], [id |-> "y", name |-> jones]>>,
                          <<115, 109, 105, 116, 104>>)) = <<smith>>
    /\ Offered =>
          LET all == ListedSessions
              raw == widgets["search"][1].value
              off == view.sessions
          IN  /\ {off[i].id : i \in 1..Len(off)}
                    = {all[i].id : i \in {j \in 1..Len(all) : Matches(all[j].name, raw)}}
              /\ \A i, j \in 1..Len(off) : i # j => off[i].id # off[j].id
              /\ \A i \in 1..Len(off) : \E j \in 1..Len(all) : off[i] = all[j]
              /\ \A i, j \in 1..Len(off) : i < j => ~StrLess(off[i].name, off[j].name)
              /\ off = (IF view.search = <<>> THEN SortedDesc(all)
                        ELSE Filtered(SortedDesc(all), view.search))
              /\ off # <<>> => view.session_names = Names(off)

\* the Drive lists the sessions of "Al" as "0s", "1S", "3j"; under the search
\* " S" the sessions offered are "1S", "0s", of which the user picked "0s"
C11_Witness ==
    /\ Offered
    /\ ListedSessions = <<Folder("a3", gen), Folder("a1", gen), Folder("a2", gen)>>
    /\ widgets["search"][1].value = <<32, 83>>
    /\ view.sessions = <<Folder("a1", gen), Folder("a3", gen)>>
    /\ view.selected_session_id = "a3"

\* C12 as stated: in a call of download_image_bytes that runs the loop, the
\* wait after a failed attempt is 0.8 s when the attempt raised an SSL error
\* and 0.5 s when it raised anything else, and every wait is followed by
\* another attempt.
C12_Original ==
    [][\A a \in ByteArgs :
         (Called("download_image_bytes", a) /\ last'.found # "live") =>
            LET log == last'.log
                q   == Pending(fault, a)
            IN  \A i \in 1..Len(log) :
                   log[i][1] = "sleep" =>
                      /\ log[i][2] = (IF q[i \div 2] = "SSLError" THEN 8 ELSE 5)
                      /\ i < Len(log)
                      /\ log[i + 1][1] = "attempt"]_vars

\* C13 as stated: when the name of a configured root cannot be fetched, the
\* run does not end in an error, every other configured root is offered in
\* the studio selector, and a root is selected whose sessions are listed.
C13_Original ==
    unreachable # {} =>
       /\ view.status # "error"
       /\ \A fid \in RootIds \ unreachable :
             DriveName(fid, gen) \in Range(view.root_names)
       /\ view.selected_root_id \in RootIds \ unreachable
       /\ cache["list_folders"][view.selected_root_id] # <<>>

\* the cache a run starts from: emptied first when the run is a refresh
CacheBefore == IF view'.event = "refresh" THEN EmptyCache ELSE cache

\* C14: a run shows the "no sessions" warning exactly when the selected root
\* lists no sessions, the "no match" warning exactly when the root has sessions
\* none of which passes the search, and the "no images" warning exactly when
\* the selected session lists no images; a run that shows a warning stops with
\* no error, draws no slider, no page input and no cell, downloads nothing,
\* and in the first two cases draws no session selector and lists no images.
C14_EmptyStates ==
    /\ [](view.warning # "" =>
            /\ view.status = "stopped"
            /\ view.error = ""
            /\ view.rendered \cap {"cols", "page_size", "page"} = {}
            /\ view.total_pages = 0
            /\ view.page = 0
            /\ view.images_page = <<>>
            /\ view.cells = <<>>
            /\ view.warning \in {"no_sessions", "no_match"} =>
                  /\ ~view.listed
                  /\ "session" \notin view.rendered)
    /\ [](("studio" \in view.rendered /\ view.status # "error") =>
            /\ view.warning = "no_sessions" <=> ListedSessions = <<>>
            /\ view.warning = "no_match" <=>
                  /\ ListedSessions # <<>>
                  /\ \A i \in 1..Len(ListedSessions) :
                        ~Matches(ListedSessions[i].name, widgets["search"][1].value)
            /\ view.warning = "no_images" <=>
                  /\ view.listed
                  /\ cache["list_images"][view.selected_session_id][1].value = <<>>)
    /\ [][view'.warning # "" =>
            /\ cache'["download_image_bytes"] = CacheBefore["download_image_bytes"]
            /\ fault' = fault
            /\ view'.warning \in {"no_sessions", "no_match"} =>
                  cache'["list_images"] = CacheBefore["list_images"]]_vars

\* the session "0s" of "Al" holds no image: its listing was made and the run
\* stopped on the warning, with no page input and no cell
C14_Witness ==
    /\ view.warning = "no_images"
    /\ view.status = "stopped"
    /\ view.selected_session_id = "a3"
    /\ view.listed
    /\ cache["list_images"]["a3"] # <<>>
    /\ cache["list_images"]["a3"][1].value = <<>>
    /\ "page" \notin view.rendered

\* the positions (from 1) of the cells drawn in column k
InColumn(k) == {i \in 1..Len(view.cells) : view.cells[i].col = k}

\* C15: a rendered page has one cell per descriptor of the page, drawn in the
\* order of the page, which is the order of the listing; the cell of the
\* descriptor at index i of the page is in column i mod cols; within a column
\* the indices increase, and the numbers of cells of two columns differ by at
\* most one.
C15_GridOrder ==
    view.status = "done" =>
       /\ view.images = cache["list_images"][view.selected_session_id][1].value
       /\ \A i \in 1..Len(view.images_page) :
             view.images_page[i] = view.images[view.start + i]
       /\ Len(view.cells) = Len(view.images_page)
       /\ \A i \in 1..Len(view.cells) :
             /\ view.cells[i].index = i - 1
             /\ view.cells[i].name = view.images_page[i].name
             /\ view.cells[i].col = (i - 1) % view.cols
             /\ view.cells[i].col \in 0..(view.cols - 1)
       /\ \A i, j \in 1..Len(view.cells) :
             (i < j /\ view.cells[i].col = view.cells[j].col)
                => view.cells[i].index < view.cells[j].index
       /\ \A k, l \in 0..(view.cols - 1) :
             Cardinality(InColumn(k)) <= Cardinality(InColumn(l)) + 1

\* 21 images in 6 columns: the 7th image starts the second row of the first
\* column, the first three columns hold 4 cells and the last three 3
C15_Witness ==
    /\ view.status = "done"
    /\ view.cols = 6
    /\ Len(view.cells) = 21
    /\ view.cells[7].col = 0
    /\ view.cells[21].col = 2
    /\ InColumn(0) = {1, 7, 13, 19}
    /\ Cardinality(InColumn(2)) = 4
    /\ Cardinality(InColumn(3)) = 3

\* the slice of page p
PageOf(images, page_size, p) ==
    Slice(images, SliceStart(p, page_size), SliceEnd(p, page_size, Len(images)))

\* the slices of pages 1..p, one after the other
RECURSIVE PagesUpTo(_, _, _)
PagesUpTo(images, page_size, p) ==
    IF p = 0 THEN <<>>
    ELSE PagesUpTo(images, page_size, p - 1) \o PageOf(images, page_size, p)

\* C16: for the image list and page size of a rendered page, the slices of
\* pages 1..total_pages put one after the other are the image list: each
\* slice begins where the one before ends, none is empty or longer than
\* page_size, all but the last hold page_size images, and every image is in
\* exactly one of them; the page shown is the slice of its page number, and
\* the image list is the listing of the session, also after a change of page.
C16_PagesPartition ==
    /\ [](view.status = "done" =>
            LET imgs == view.images
                ps   == view.page_size
                n    == TotalPages(Len(imgs), ps)
            IN  /\ PagesUpTo(imgs, ps, n) = imgs
                /\ SliceStart(1, ps) = 0
                /\ SliceEnd(n, ps, Len(imgs)) = Len(imgs)
                /\ \A p \in 1..n :
                      /\ Len(PageOf(imgs, ps, p)) >= 1
                      /\ Len(PageOf(imgs, ps, p)) <= ps
                      /\ p < n => /\ Len(PageOf(imgs, ps, p)) = ps
                                  /\ SliceEnd(p, ps, Len(imgs)) = SliceStart(p + 1, ps)
                /\ \A i \in 1..Len(imgs) :
                      Cardinality({p \in 1..n :
                         \E k \in 1..Len(PageOf(imgs, ps, p)) :
                            PageOf(imgs, ps, p)[k].id = imgs[i].id}) = 1
                /\ view.images_page = PageOf(imgs, ps, view.page)
                /\ imgs = cache["list_images"][view.selected_session_id][1].value)
    /\ [][(view'.event = "page" /\ view'.status = "done") =>
            /\ view'.images = view.images
            /\ cache'["list_images"] = cache["list_images"]]_vars

\* the user went to the third page of 25 images in pages of 10: it holds the
\* last 5, and the list still holds the 25
C16_Witness ==
    /\ view.status = "done"
    /\ view.event = "page"
    /\ view.page_size = 10
    /\ view.page = 3
    /\ Len(view.images) = 25
    /\ Len(view.images_page) = 5
    /\ view.images_page[1] = view.images[21]

\* C17: a call of download_image_bytes(F) that raises leaves the cache as it
\* was, with no entry for F; the next call for F finds no entry and makes
\* download attempts of its own, whose outcome is that of these attempts: it
\* fails only when three more attempts fail, and otherwise returns the bytes
\* now on the Drive and stores them.
C17_FailureNotCached ==
    [][\A a \in ByteArgs :
         Called("download_image_bytes", a) =>
            /\ ~last'.ok =>
                  /\ cache'["download_image_bytes"][a] = <<>>
                  /\ cache' = cache
            /\ (last.op = "download_image_bytes" /\ last.arg = a /\ ~last.ok /\ ~cleared) =>
                  /\ last'.found = "none"
                  /\ last'.net >= 1
                  /\ Attempts(last'.log) = last'.net
                  /\ last'.ok <=> Len(Pending(fault, a)) < MaxAttempts
                  /\ last'.ok =>
                        /\ last'.value = DriveBytes(a, gen)
                        /\ cache'["download_image_bytes"][a]
                              = <<[value |-> DriveBytes(a, gen), stored |-> now]>>]_vars

\* the download of a file had failed three times; the call after it made an
\* attempt of its own, which succeeded
C17_Witness ==
    /\ last.op = "download_image_bytes"
    /\ last.after_failure
    /\ last.found = "none"
    /\ last.ok
    /\ last.net = 1
    /\ last.value = DriveBytes(last.arg, gen)

\* the number of waits a call log shows
Sleeps(log) == Cardinality({i \in 1..Len(log) : log[i][1] = "sleep"})

\* C18: a call of download_image_bytes that runs the loop and whose attempt k
\* (1 <= k <= 3) is the first to succeed, the k - 1 before it having failed,
\* returns the bytes that attempt read, raises nothing, makes exactly k
\* attempts and k - 1 waits, and uses up the k - 1 failures; and a call that
\* returns after k attempts has made k - 1 waits.
C18_FirstSuccess ==
    [][\A a \in ByteArgs :
         (Called("download_image_bytes", a) /\ last'.found # "live") =>
            LET k == Len(Pending(fault, a)) + 1
            IN  /\ k <= MaxAttempts =>
                      /\ last'.ok
                      /\ last'.error = ""
                      /\ last'.value = DriveBytes(a, gen)
                      /\ last'.net = k
                      /\ Attempts(last'.log) = k
                      /\ Sleeps(last'.log) = k - 1
                      /\ last'.log[Len(last'.log)] = <<"attempt", k - 1>>
                      /\ Pending(fault', a) = <<>>
                /\ last'.ok =>
                      /\ last'.net \in 1..MaxAttempts
                      /\ Attempts(last'.log) = last'.net
                      /\ Sleeps(last'.log) = last'.net - 1]_vars

\* the first attempt failed on an SSL error, the second on an HTTP error, the
\* third succeeded: the call returned the bytes after two waits
C18_Witness ==
    /\ last.op = "download_image_bytes"
    /\ last.ok
    /\ last.error = ""
    /\ last.net = 3
    /\ last.log = << <<"attempt", 0>>, <<"sleep", SleepSSL>>, <<"attempt", 1>>,
                     <<"sleep", SleepOther>>, <<"attempt", 2>> >>
    /\ last.value = DriveBytes(last.arg, gen)

\* C19 as stated: once the studio selector is drawn, every configured root is
\* the folder some choice of the selector selects; and once the session
\* selector is drawn, every offered session is the folder some choice of that
\* selector selects.
C19_Original ==
    /\ "studio" \in view.rendered =>
          \A fid \in RootIds :
             \E n \in Range(view.root_names) : view.root_map[n] = fid
    /\ "session" \in view.rendered =>
          \A i \in 1..Len(view.sessions) :
             \E n \in Range(view.session_names) :
                FirstNamed(view.sessions, n).id = view.sessions[i].id

====
